---- MODULE Spec2Model ----
(***************************************************************************)
(* QuickTalk storage layer (server/storage.ts, MongoStorage) over the      *)
(* three Mongoose collections Users, Messages and Groups, together with    *)
(* the route handlers of registerRoutes that call it.                      *)
(*                                                                         *)
(* Every await of a handler is one step: a handler that awaits several     *)
(* database commands is split at the awaits, and the commands of other     *)
(* requests may run in between.  A single database command is atomic.      *)
(***************************************************************************)
EXTENDS Integers, Sequences, FiniteSets

(***************************************************************************)
(* Bounds and value sets                                                   *)
(***************************************************************************)
\* number of messages ever created
MaxMsgs == 2
\* largest value of the wall clock
MaxTime == 1
\* number of users ever created
MaxUsers == 2
\* number of times one client page is mounted
MaxMounts == 2
\* an absent / null / undefined field
Null == "null"
\* ObjectIds a caller can name as a user, and as a group
UserIds == {"u1", "u2"}
GroupIds == {"g1", "g2"}
\* ObjectIds that Group.create hands out: g2 never names a group
NewGroupIds == {"g1"}
\* ObjectIds that User.create hands out
NewUserIds == {"u1", "u2", "u3"}
\* requests in flight on the server
Procs == {"p1", "p2"}

(***************************************************************************)
(* Outcomes of a call: these are the messages of the errors the code throws *)
(***************************************************************************)
Ok == "ok"
ErrNeither == "Message must have either a recipient or a group"
ErrBoth == "Message cannot have both recipient and group"
ErrValidation == "ValidationError"
ErrDeleteMessage == "Unauthorized to delete this message"
ErrDeleteGroup == "Unauthorized to delete this group"
ErrUserNotFound == "User not found"
ErrDuplicateKey == "E11000 duplicate key error"
ErrDocumentNotFound == "DocumentNotFoundError"
ErrUsernameExists == "Username already exists"
ErrStorage == "MongoNetworkError"
ErrZod == "ZodError"
Placeholder == "This message was deleted"

VARIABLES
    users,      \* Users collection: _id -> document
    messages,   \* Messages collection, in natural (insertion) order
    groups,     \* Groups collection: _id -> document
    usedIds,    \* ObjectIds of Users and Groups handed out so far (never reused)
    nextMsgId,  \* ObjectId of the next message (ObjectIds of one process increase)
    now,        \* the wall clock read by new Date() / Date.now
    pending,    \* per request in flight: the handler's position and locals
    resp        \* outcome of the call that completed last

vars == <<users, messages, groups, usedIds, nextMsgId, now, pending, resp>>

Idle == [op |-> "idle"]

Response(op, status, n) == [op |-> op, status |-> status, n |-> n]

(***************************************************************************)
(* Messages: schema, hooks, transformMessage                               *)
(***************************************************************************)
NoFile == [fileUrl |-> Null, fileName |-> Null, fileType |-> Null]
AFile == [fileUrl |-> "/uploads/1.png", fileName |-> "a.png", fileType |-> "image/png"]

\* the argument of createMessage
MessageData(senderId, recipientId, groupId, content, file) ==
    [senderId |-> senderId, recipientId |-> recipientId, groupId |-> groupId,
     content |-> content, fileUrl |-> file.fileUrl, fileName |-> file.fileName,
     fileType |-> file.fileType]

\* required: true on senderId and content (a required String rejects "")
messageSchemaValid(doc) == doc.senderId # Null /\ doc.content # ""

preSaveAcceptsBoth(doc) ==
    IF doc.recipientId = Null /\ doc.groupId = Null THEN ErrNeither ELSE Ok

\* messageSchema.pre('save')
preSave(doc) ==
    IF doc.recipientId = Null /\ doc.groupId = Null THEN ErrNeither
    ELSE IF doc.recipientId # Null /\ doc.groupId # Null THEN ErrBoth
    ELSE Ok

\* document.save(): the built-in validation hook runs before the schema's own
saveOutcome(doc) == IF ~messageSchemaValid(doc) THEN ErrValidation ELSE preSave(doc)

transformMessageKeepsFile(message) ==
    [id |-> message.id, senderId |-> message.senderId,
     recipientId |-> message.recipientId, groupId |-> message.groupId,
     content |-> IF message.isDeleted THEN Placeholder ELSE message.content,
     timestamp |-> message.timestamp,
     fileUrl |-> message.fileUrl, fileName |-> message.fileName,
     fileType |-> message.fileType, isDeleted |-> message.isDeleted]

transformMessage(message) ==
    IF message.isDeleted
    THEN [id |-> message.id, senderId |-> message.senderId,
          recipientId |-> message.recipientId, groupId |-> message.groupId,
          content |-> Placeholder, timestamp |-> message.timestamp,
          isDeleted |-> TRUE,
          fileUrl |-> Null, fileName |-> Null, fileType |-> Null]
    ELSE [id |-> message.id, senderId |-> message.senderId,
          recipientId |-> message.recipientId, groupId |-> message.groupId,
          content |-> message.content, timestamp |-> message.timestamp,
          fileUrl |-> message.fileUrl, fileName |-> message.fileName,
          fileType |-> message.fileType, isDeleted |-> FALSE]

\* Message.findById
findMessageById(messageId) ==
    SelectSeq(messages, LAMBDA m : m.id = messageId)

\* the permutations of 1..n
Orderings(n) ==
    {f \in [1..n -> 1..n] : \A i, j \in 1..n : i # j => f[i] # f[j]}

\* Query.sort('timestamp') on documents found in natural order: ascending
\* timestamp; the order of documents with equal timestamps is left to the server
sortTimestamp(docs) ==
    {[i \in 1..Len(docs) |-> docs[f[i]]] :
        f \in {g \in Orderings(Len(docs)) :
                 \A i, j \in 1..Len(docs) :
                    i < j => docs[g[i]].timestamp <= docs[g[j]].timestamp}}

\* Message.find({ $or: [...] }).sort('timestamp') mapped through
\* transformMessage, on the collection msgs: the lists the query can return
betweenUsersIn(msgs, user1Id, user2Id) ==
    {[i \in 1..Len(s) |-> transformMessage(s[i])] :
        s \in sortTimestamp(SelectSeq(msgs, LAMBDA m :
                \/ (m.senderId = user1Id /\ m.recipientId = user2Id)
                \/ (m.senderId = user2Id /\ m.recipientId = user1Id)))}

\* Message.find({ groupId }).sort('timestamp') mapped through transformMessage
groupMessagesIn(msgs, groupId) ==
    {[i \in 1..Len(s) |-> transformMessage(s[i])] :
        s \in sortTimestamp(SelectSeq(msgs, LAMBDA m : m.groupId = groupId))}

\* the lists getMessagesBetweenUsers(user1Id, user2Id) can return
getMessagesBetweenUsers(user1Id, user2Id) == betweenUsersIn(messages, user1Id, user2Id)

\* the lists getGroupMessages(groupId) can return
getGroupMessages(groupId) == groupMessagesIn(messages, groupId)

(***************************************************************************)
(* Message operations                                                      *)
(***************************************************************************)
newDocumentWithoutFile(messageData, t) ==
    [id |-> nextMsgId,
     senderId |-> messageData.senderId,
     recipientId |-> messageData.recipientId,
     groupId |-> messageData.groupId,
     content |-> messageData.content,
     fileUrl |-> Null, fileName |-> Null, fileType |-> Null,
     timestamp |-> t,
     isDeleted |-> FALSE]

\* the document createMessage hands to Message.create:
\* { ...messageData, timestamp: new Date(), isDeleted: false }, with a fresh _id
newDocument(messageData, t) ==
    [id |-> nextMsgId,
     senderId |-> messageData.senderId,
     recipientId |-> messageData.recipientId,
     groupId |-> messageData.groupId,
     content |-> messageData.content,
     fileUrl |-> messageData.fileUrl,
     fileName |-> messageData.fileName,
     fileType |-> messageData.fileType,
     timestamp |-> t,
     isDeleted |-> FALSE]

\* createMessage(messageData), with t the value of new Date() in the handler;
\* Message.create validates, runs the save hook and inserts
createMessage(messageData, t) ==
    LET doc == newDocument(messageData, t)
        outcome == saveOutcome(doc)
    IN  /\ IF outcome = Ok
           THEN /\ nextMsgId <= MaxMsgs
                /\ messages' = Append(messages, doc)
                /\ nextMsgId' = nextMsgId + 1
                /\ resp' = Response("createMessage", Ok, 1)
           ELSE /\ UNCHANGED <<messages, nextMsgId>>
                /\ resp' = Response("createMessage", outcome, 0)
        /\ UNCHANGED <<users, groups, usedIds, now, pending>>

\* the body of a POST /api/messages request
RequestBody(senderId, recipientId, groupId, content, file, isDeleted, timestamp) ==
    [senderId |-> senderId, recipientId |-> recipientId, groupId |-> groupId,
     content |-> content, fileUrl |-> file.fileUrl, fileName |-> file.fileName,
     fileType |-> file.fileType, isDeleted |-> isDeleted, timestamp |-> timestamp]

\* insertMessageSchema.parse(body) succeeds: content is a string; recipientId
\* and groupId may be null or absent
insertMessageSchemaAccepts(body) == body.content # Null

\* insertMessageSchema.parse(body): the picked keys recipientId, groupId and
\* content; every other key of the body is stripped
insertMessageSchemaParse(body) ==
    [recipientId |-> body.recipientId, groupId |-> body.groupId,
     content |-> body.content]

postMessagesTrustsBody(caller, body, t) ==
    IF ~insertMessageSchemaAccepts(body)
    THEN /\ resp' = Response("createMessage", ErrZod, 0)
         /\ UNCHANGED <<users, messages, groups, usedIds, nextMsgId, now, pending>>
    ELSE createMessage(
             MessageData(IF body.senderId = Null THEN caller ELSE body.senderId,
                         body.recipientId, body.groupId, body.content, NoFile), t)

\* app.post("/api/messages") for the authenticated user caller: createMessage
\* of { ...data, senderId: req.user.id, fileUrl: null, fileName: null,
\* fileType: null, isDeleted: false }
postMessages(caller, body, t) ==
    IF ~insertMessageSchemaAccepts(body)
    THEN /\ resp' = Response("createMessage", ErrZod, 0)
         /\ UNCHANGED <<users, messages, groups, usedIds, nextMsgId, now, pending>>
    ELSE LET data == insertMessageSchemaParse(body)
         IN  createMessage(
                 MessageData(caller, data.recipientId, data.groupId, data.content,
                             NoFile), t)

\* app.get("/api/groups/:groupId/messages") for the authenticated user caller.
\* The response counts the messages returned.
getGroupMessagesRoute(caller, groupId) ==
    /\ resp' = Response("getGroupMessages", Ok,
                   Len(SelectSeq(messages, LAMBDA m : m.groupId = groupId)))
    /\ UNCHANGED <<users, messages, groups, usedIds, nextMsgId, now, pending>>

deleteMessageFindAnyUser(p, messageId, userId) ==
    LET found == findMessageById(messageId)
    IN  /\ pending[p].op = "idle"
        /\ IF found = <<>>
           THEN /\ resp' = Response("deleteMessage", ErrDeleteMessage, 0)
                /\ UNCHANGED pending
           ELSE /\ pending' = [pending EXCEPT ![p] =
                      [op |-> "deleteMessage", message |-> found[1]]]
                /\ UNCHANGED resp
        /\ UNCHANGED <<users, messages, groups, usedIds, nextMsgId, now>>

\* deleteMessage(messageId, userId) up to its second await: findById and the check
deleteMessageFind(p, messageId, userId) ==
    LET found == findMessageById(messageId)
    IN  /\ pending[p].op = "idle"
        /\ IF found = <<>> \/ found[1].senderId # userId
           THEN /\ resp' = Response("deleteMessage", ErrDeleteMessage, 0)
                /\ UNCHANGED pending
           ELSE /\ pending' = [pending EXCEPT ![p] =
                      [op |-> "deleteMessage", message |-> found[1]]]
                /\ UNCHANGED resp
        /\ UNCHANGED <<users, messages, groups, usedIds, nextMsgId, now>>

markDeletedToggles(message) == [message EXCEPT !.isDeleted = ~@]

\* deleteMessage: message.isDeleted = true
markDeleted(message) == [message EXCEPT !.isDeleted = TRUE]

\* deleteMessage: message.isDeleted = true; await message.save().  save()
\* validates the loaded document and updates the modified path by _id; when
\* the assignment modified nothing it writes nothing and only checks that the
\* document is still there.  The response counts the documents written.
deleteMessageSave(p) ==
    /\ pending[p].op = "deleteMessage"
    /\ LET doc == markDeleted(pending[p].message)
           outcome == saveOutcome(doc)
       IN  IF outcome # Ok
           THEN /\ resp' = Response("deleteMessage", outcome, 0)
                /\ UNCHANGED messages
           ELSE IF findMessageById(doc.id) = <<>>
           THEN /\ resp' = Response("deleteMessage", ErrDocumentNotFound, 0)
                /\ UNCHANGED messages
           ELSE /\ messages' = [i \in 1..Len(messages) |->
                        IF messages[i].id = doc.id
                        THEN [messages[i] EXCEPT !.isDeleted = doc.isDeleted]
                        ELSE messages[i]]
                /\ resp' = Response("deleteMessage", Ok,
                               IF doc.isDeleted = pending[p].message.isDeleted
                               THEN 0 ELSE 1)
    /\ pending' = [pending EXCEPT ![p] = Idle]
    /\ UNCHANGED <<users, groups, usedIds, nextMsgId, now>>

(***************************************************************************)
(* Group operations                                                        *)
(***************************************************************************)
uniqueIdsKeepsAll(ids) == ids

\* [...new Set(ids)]: the first occurrence of every id, in order
uniqueIds(ids) ==
    SelectSeq([i \in 1..Len(ids) |->
                  IF \E j \in 1..(i - 1) : ids[j] = ids[i] THEN Null ELSE ids[i]],
              LAMBDA x : x # Null)

\* createGroup(name, adminId, memberIds)
createGroup(name, adminId, memberIds) ==
    /\ NewGroupIds \ usedIds # {}
    /\ LET id == CHOOSE g \in NewGroupIds \ usedIds : TRUE
       IN  /\ groups' = [g \in DOMAIN groups \cup {id} |->
                  IF g = id
                  THEN [name |-> name, admin |-> adminId,
                        members |-> uniqueIds(<<adminId>> \o memberIds),
                        createdAt |-> now]
                  ELSE groups[g]]
           /\ usedIds' = usedIds \cup {id}
    /\ resp' = Response("createGroup", Ok, 1)
    /\ UNCHANGED <<users, messages, nextMsgId, now, pending>>

addToSetPush(members, ids) == members \o ids

\* $addToSet: { members: { $each: ids } }: every id that the array does not
\* hold is appended once
addToSet(members, ids) ==
    members \o SelectSeq(uniqueIds(ids),
                         LAMBDA x : \A i \in 1..Len(members) : members[i] # x)

\* $pull: { members: memberId }: every occurrence is removed
pull(members, memberId) == SelectSeq(members, LAMBDA x : x # memberId)

\* addGroupMembers(groupId, memberIds): Group.findByIdAndUpdate, which finds
\* nothing and reports nothing for an id that names no group.  The response
\* counts the ids added.
addGroupMembers(groupId, memberIds) ==
    /\ IF groupId \in DOMAIN groups
       THEN /\ groups' = [groups EXCEPT ![groupId].members = addToSet(@, memberIds)]
            /\ resp' = Response("addGroupMembers", Ok,
                           Len(groups'[groupId].members) - Len(groups[groupId].members))
       ELSE /\ UNCHANGED groups
            /\ resp' = Response("addGroupMembers", Ok, 0)
    /\ UNCHANGED <<users, messages, usedIds, nextMsgId, now, pending>>

removeGroupMemberReassignsAdmin(groupId, memberId) ==
    /\ IF groupId \in DOMAIN groups
       THEN /\ groups' = [groups EXCEPT
                  ![groupId].members = pull(@, memberId),
                  ![groupId].admin = IF @ = memberId THEN Null ELSE @]
            /\ resp' = Response("removeGroupMember", Ok,
                           Len(groups[groupId].members) - Len(groups'[groupId].members))
       ELSE /\ UNCHANGED groups
            /\ resp' = Response("removeGroupMember", Ok, 0)
    /\ UNCHANGED <<users, messages, usedIds, nextMsgId, now, pending>>

\* removeGroupMember(groupId, memberId): Group.findByIdAndUpdate with $pull.
\* The response counts the entries removed.
removeGroupMember(groupId, memberId) ==
    /\ IF groupId \in DOMAIN groups
       THEN /\ groups' = [groups EXCEPT ![groupId].members = pull(@, memberId)]
            /\ resp' = Response("removeGroupMember", Ok,
                           Len(groups[groupId].members) - Len(groups'[groupId].members))
       ELSE /\ UNCHANGED groups
            /\ resp' = Response("removeGroupMember", Ok, 0)
    /\ UNCHANGED <<users, messages, usedIds, nextMsgId, now, pending>>

deleteGroupFindNotFound(p, groupId, userId) ==
    /\ pending[p].op = "idle"
    /\ IF groupId \notin DOMAIN groups
       THEN /\ resp' = Response("deleteGroup", "Group not found", 0)
            /\ UNCHANGED pending
       ELSE IF groups[groupId].admin # userId
       THEN /\ resp' = Response("deleteGroup", ErrDeleteGroup, 0)
            /\ UNCHANGED pending
       ELSE /\ pending' = [pending EXCEPT ![p] =
                  [op |-> "deleteGroup", pc |-> "deleteMany", groupId |-> groupId,
                   n |-> 0]]
            /\ UNCHANGED resp
    /\ UNCHANGED <<users, messages, groups, usedIds, nextMsgId, now>>

\* deleteGroup(groupId, userId) up to its second await: findById and the check
deleteGroupFind(p, groupId, userId) ==
    /\ pending[p].op = "idle"
    /\ IF groupId \notin DOMAIN groups \/ groups[groupId].admin # userId
       THEN /\ resp' = Response("deleteGroup", ErrDeleteGroup, 0)
            /\ UNCHANGED pending
       ELSE /\ pending' = [pending EXCEPT ![p] =
                  [op |-> "deleteGroup", pc |-> "deleteMany", groupId |-> groupId,
                   n |-> 0]]
            /\ UNCHANGED resp
    /\ UNCHANGED <<users, messages, groups, usedIds, nextMsgId, now>>

deleteGroupMessagesDeleteOne(p) ==
    /\ pending[p].op = "deleteGroup"
    /\ pending[p].pc = "deleteMany"
    /\ LET hit == {i \in 1..Len(messages) : messages[i].groupId = pending[p].groupId}
           first == IF hit = {} THEN 0 ELSE CHOOSE i \in hit : \A j \in hit : i <= j
           kept == SelectSeq([i \in 1..Len(messages) |->
                                 IF i = first THEN [messages[i] EXCEPT !.id = 0]
                                 ELSE messages[i]],
                             LAMBDA m : m.id # 0)
       IN  /\ messages' = kept
           /\ pending' = [pending EXCEPT ![p].pc = "findByIdAndDelete",
                                         ![p].n = Len(messages) - Len(kept)]
    /\ UNCHANGED <<users, groups, usedIds, nextMsgId, now, resp>>

\* deleteGroup: await Message.deleteMany({ groupId })
deleteGroupMessages(p) ==
    /\ pending[p].op = "deleteGroup"
    /\ pending[p].pc = "deleteMany"
    /\ LET kept == SelectSeq(messages, LAMBDA m : m.groupId # pending[p].groupId)
       IN  /\ messages' = kept
           /\ pending' = [pending EXCEPT ![p].pc = "findByIdAndDelete",
                                         ![p].n = Len(messages) - Len(kept)]
    /\ UNCHANGED <<users, groups, usedIds, nextMsgId, now, resp>>

\* deleteGroup: await Group.findByIdAndDelete(groupId)
deleteGroupRemove(p) ==
    /\ pending[p].op = "deleteGroup"
    /\ pending[p].pc = "findByIdAndDelete"
    /\ groups' = [g \in DOMAIN groups \ {pending[p].groupId} |-> groups[g]]
    /\ resp' = Response("deleteGroup", Ok, pending[p].n)
    /\ pending' = [pending EXCEPT ![p] = Idle]
    /\ UNCHANGED <<users, messages, usedIds, nextMsgId, now>>

(***************************************************************************)
(* User operations                                                         *)
(***************************************************************************)
\* required: true on username and password
userSchemaValid(doc) == doc.username # "" /\ doc.password # ""

uniqueIndexMissing(us, id, username) == FALSE

\* username: { unique: true }: the unique index of the Users collection
\* rejects a write that would give the document id a username that another
\* document of us holds
uniqueIndexRejects(us, id, username) ==
    \E other \in DOMAIN us : other # id /\ us[other].username = username

\* getUserByUsername(username): the ids User.findOne({ username }) can find
getUserByUsername(username) == {id \in DOMAIN users : users[id].username = username}

\* createUser(userData)
createUser(userData) ==
    LET doc == [username |-> userData.username, password |-> userData.password,
                isOnline |-> FALSE, lastSeen |-> now]
    IN  /\ IF ~userSchemaValid(doc)
           THEN /\ resp' = Response("createUser", ErrValidation, 0)
                /\ UNCHANGED <<users, usedIds>>
           ELSE IF uniqueIndexRejects(users, Null, doc.username)
           THEN /\ resp' = Response("createUser", ErrDuplicateKey, 0)
                /\ UNCHANGED <<users, usedIds>>
           ELSE /\ Cardinality(usedIds \cap NewUserIds) < MaxUsers
                /\ NewUserIds \ usedIds # {}
                /\ LET id == CHOOSE u \in NewUserIds \ usedIds : TRUE
                   IN  /\ users' = [u \in DOMAIN users \cup {id} |->
                                       IF u = id THEN doc ELSE users[u]]
                       /\ usedIds' = usedIds \cup {id}
                /\ resp' = Response("createUser", Ok, 1)
        /\ UNCHANGED <<messages, groups, nextMsgId, now, pending>>

\* { $set: updates } applied to a user document; a field that is Null in
\* updates is not in the update
setFields(user, updates) ==
    [user EXCEPT
        !.username = IF updates.username = Null THEN @ ELSE updates.username,
        !.isOnline = IF "isOnline" \in DOMAIN updates THEN updates.isOnline ELSE @]

\* updateUser(id, updates): User.findByIdAndUpdate(id, { $set: updates },
\* { new: true }) and the check of its result.  Update validators are off.
updateUserOutcome(id, updates) ==
    IF id \notin DOMAIN users THEN ErrUserNotFound
    ELSE IF uniqueIndexRejects(users, id, setFields(users[id], updates).username)
    THEN ErrDuplicateKey
    ELSE Ok

\* app.patch("/api/user") for a body whose username is truthy, up to its second
\* await: getUserByUsername and the check of the name's holder
patchUserLookup(p, caller, body) ==
    /\ pending[p].op = "idle"
    /\ caller \in DOMAIN users
    /\ body.username # Null /\ body.username # ""
    /\ IF \E existingUser \in getUserByUsername(body.username) : existingUser # caller
       THEN /\ resp' = Response("patchUser", ErrUsernameExists, 0)
            /\ UNCHANGED pending
       ELSE /\ pending' = [pending EXCEPT ![p] =
                  [op |-> "patchUser", caller |-> caller, body |-> body]]
            /\ UNCHANGED resp
    /\ UNCHANGED <<users, messages, groups, usedIds, nextMsgId, now>>

\* app.patch("/api/user"): await storage.updateUser(req.user.id, {...req.body})
patchUserUpdate(p) ==
    /\ pending[p].op = "patchUser"
    /\ LET id == pending[p].caller
           outcome == updateUserOutcome(id, pending[p].body)
       IN  /\ IF outcome = Ok
              THEN users' = [users EXCEPT ![id] = setFields(@, pending[p].body)]
              ELSE UNCHANGED users
           /\ resp' = Response("patchUser", outcome, IF outcome = Ok THEN 1 ELSE 0)
    /\ pending' = [pending EXCEPT ![p] = Idle]
    /\ UNCHANGED <<messages, groups, usedIds, nextMsgId, now>>

\* app.patch("/api/user") for a body whose username is falsy: no look-up, the
\* handler's first await is updateUser
patchUserNoLookup(caller, body) ==
    /\ caller \in DOMAIN users
    /\ body.username = Null \/ body.username = ""
    /\ LET outcome == updateUserOutcome(caller, body)
       IN  /\ IF outcome = Ok
              THEN users' = [users EXCEPT ![caller] = setFields(@, body)]
              ELSE UNCHANGED users
           /\ resp' = Response("patchUser", outcome, IF outcome = Ok THEN 1 ELSE 0)
    /\ UNCHANGED <<messages, groups, usedIds, nextMsgId, now, pending>>

setUserOnlineStatusKeepsLastSeen(id, isOnline) ==
    /\ IF id \in DOMAIN users
       THEN /\ users' = [users EXCEPT ![id].isOnline = isOnline]
            /\ resp' = Response("setUserOnlineStatus", Ok, 1)
       ELSE /\ UNCHANGED users
            /\ resp' = Response("setUserOnlineStatus", Ok, 0)
    /\ UNCHANGED <<messages, groups, usedIds, nextMsgId, now, pending>>

\* setUserOnlineStatus(id, isOnline): User.findByIdAndUpdate(id, { isOnline,
\* lastSeen: new Date() }), which finds nothing and reports nothing for an id
\* that names no user.  The response counts the documents written.
setUserOnlineStatus(id, isOnline) ==
    /\ IF id \in DOMAIN users
       THEN /\ users' = [users EXCEPT ![id].isOnline = isOnline,
                                      ![id].lastSeen = now]
            /\ resp' = Response("setUserOnlineStatus", Ok, 1)
       ELSE /\ UNCHANGED users
            /\ resp' = Response("setUserOnlineStatus", Ok, 0)
    /\ UNCHANGED <<messages, groups, usedIds, nextMsgId, now, pending>>

\* a username as the string of its characters
Chars(username) ==
    CASE username = "alice" -> <<"a", "l", "i", "c", "e">>
      [] username = "bob" -> <<"b", "o", "b">>
      [] OTHER -> <<>>

\* $options: 'i': letters are compared without regard to case
Lower(c) ==
    CASE c = "A" -> "a"
      [] c = "L" -> "l"
      [] c = "B" -> "b"
      [] OTHER -> c

\* { $regex: query, $options: 'i' } for a query of plain letters: the query
\* occurs somewhere in the name
regexMatches(query, name) ==
    \E off \in 0..(Len(name) - Len(query)) :
        \A i \in 1..Len(query) : Lower(query[i]) = Lower(name[off + i])

\* searchUsers(query): the ids of the users User.find returns
searchUsers(query) ==
    {id \in DOMAIN users : regexMatches(query, Chars(users[id].username))}

usersSearchNoGuard(caller, query) == searchUsers(query) \ {caller}

\* app.get("/api/users/search"): the ids of the users in the response for
\* q = query
usersSearch(caller, query) ==
    IF query = <<>> THEN {} ELSE searchUsers(query) \ {caller}

\* app.get("/api/users/search") called by an authenticated user.  The response
\* counts the users returned.
getUsersSearch(caller, query) ==
    /\ caller \in DOMAIN users
    /\ resp' = Response("searchUsers", Ok, Cardinality(usersSearch(caller, query)))
    /\ UNCHANGED <<users, messages, groups, usedIds, nextMsgId, now, pending>>

(***************************************************************************)
(* Presence as the client pages drive it                                   *)
(***************************************************************************)
\* the HomePage of one browser tab: whether it is mounted, the presence
\* requests it has sent that the server has not processed yet, and how often
\* it has been mounted
HomePage(mounted, online, offline, mounts) ==
    [op |-> "page", mounted |-> mounted, online |-> online, offline |-> offline,
     mounts |-> mounts]

\* the page of tab p; a tab that has never shown the page has sent nothing
pageOf(p) ==
    IF pending[p].op = "page" THEN pending[p] ELSE HomePage(FALSE, 0, 0, 0)

\* HomePage useEffect on mount: apiRequest("POST", "/api/online"), not awaited
mount(p, user) ==
    /\ user \in DOMAIN users
    /\ ~pageOf(p).mounted
    /\ pageOf(p).mounts < MaxMounts
    /\ pending' = [pending EXCEPT ![p] =
          HomePage(TRUE, pageOf(p).online + 1, pageOf(p).offline, pageOf(p).mounts + 1)]
    /\ UNCHANGED <<users, messages, groups, usedIds, nextMsgId, now, resp>>

\* HomePage useEffect cleanup on unmount: apiRequest("POST", "/api/offline")
unmount(p) ==
    /\ pageOf(p).mounted
    /\ pending' = [pending EXCEPT ![p] =
          HomePage(FALSE, pageOf(p).online, pageOf(p).offline + 1, pageOf(p).mounts)]
    /\ UNCHANGED <<users, messages, groups, usedIds, nextMsgId, now, resp>>

\* what setUserOnlineStatus(id, isOnline) writes to the Users collection
withOnlineStatus(us, id, isOnline) ==
    IF id \in DOMAIN us
    THEN [us EXCEPT ![id].isOnline = isOnline, ![id].lastSeen = now]
    ELSE us

\* app.post("/api/online") serving a request of tab p:
\* setUserOnlineStatus(req.user.id, true)
postOnline(p, user) ==
    /\ pageOf(p).online > 0
    /\ users' = withOnlineStatus(users, user, TRUE)
    /\ pending' = [pending EXCEPT ![p].online = @ - 1]
    /\ resp' = Response("setUserOnlineStatus", Ok, IF user \in DOMAIN users THEN 1 ELSE 0)
    /\ UNCHANGED <<messages, groups, usedIds, nextMsgId, now>>

\* app.post("/api/offline") serving a request of tab p:
\* setUserOnlineStatus(req.user.id, false)
postOffline(p, user) ==
    /\ pageOf(p).offline > 0
    /\ users' = withOnlineStatus(users, user, FALSE)
    /\ pending' = [pending EXCEPT ![p].offline = @ - 1]
    /\ resp' = Response("setUserOnlineStatus", Ok, IF user \in DOMAIN users THEN 1 ELSE 0)
    /\ UNCHANGED <<messages, groups, usedIds, nextMsgId, now>>

(***************************************************************************)
(* User operations that write messages                                     *)
(***************************************************************************)
deleteUserMessagesDirectOnly(p, id) ==
    /\ pending[p].op = "idle"
    /\ messages' = SelectSeq(messages, LAMBDA m :
                       ~(m.groupId = Null /\ (m.senderId = id \/ m.recipientId = id)))
    /\ pending' = [pending EXCEPT ![p] =
          [op |-> "deleteUser", id |-> id, n |-> Len(messages) - Len(messages')]]
    /\ UNCHANGED <<users, groups, usedIds, nextMsgId, now, resp>>

deleteUserMessagesSentOnly(p, id) ==
    /\ pending[p].op = "idle"
    /\ messages' = SelectSeq(messages, LAMBDA m : m.senderId # id)
    /\ pending' = [pending EXCEPT ![p] =
          [op |-> "deleteUser", id |-> id, n |-> Len(messages) - Len(messages')]]
    /\ UNCHANGED <<users, groups, usedIds, nextMsgId, now, resp>>

\* deleteUser(id) up to its second await: Message.deleteMany
deleteUserMessages(p, id) ==
    /\ pending[p].op = "idle"
    /\ messages' = SelectSeq(messages, LAMBDA m :
                       ~(m.senderId = id \/ m.recipientId = id))
    /\ pending' = [pending EXCEPT ![p] =
          [op |-> "deleteUser", id |-> id, n |-> Len(messages) - Len(messages')]]
    /\ UNCHANGED <<users, groups, usedIds, nextMsgId, now, resp>>

\* deleteUser: await User.findByIdAndDelete(id)
deleteUserRemove(p) ==
    /\ pending[p].op = "deleteUser"
    /\ users' = [u \in DOMAIN users \ {pending[p].id} |-> users[u]]
    /\ resp' = Response("deleteUser", Ok, 1)
    /\ pending' = [pending EXCEPT ![p] = Idle]
    /\ UNCHANGED <<messages, groups, usedIds, nextMsgId, now>>

\* deleteGroup: await Group.findByIdAndDelete(groupId) rejects (the database
\* is unreachable); the error leaves deleteGroup with the purge already done.
\* The response counts the documents the call had written.
deleteGroupRemoveFails(p) ==
    /\ pending[p].op = "deleteGroup"
    /\ pending[p].pc = "findByIdAndDelete"
    /\ resp' = Response("deleteGroup", ErrStorage, pending[p].n)
    /\ pending' = [pending EXCEPT ![p] = Idle]
    /\ UNCHANGED <<users, messages, groups, usedIds, nextMsgId, now>>

\* deleteUser: await User.findByIdAndDelete(id) rejects
deleteUserRemoveFails(p) ==
    /\ pending[p].op = "deleteUser"
    /\ resp' = Response("deleteUser", ErrStorage, pending[p].n)
    /\ pending' = [pending EXCEPT ![p] = Idle]
    /\ UNCHANGED <<users, messages, groups, usedIds, nextMsgId, now>>

TickClearsPresence ==
    /\ now < MaxTime
    /\ now' = now + 1
    /\ users' = [u \in DOMAIN users |-> [users[u] EXCEPT !.isOnline = FALSE]]
    /\ UNCHANGED <<messages, groups, usedIds, nextMsgId, pending, resp>>

\* the wall clock advances
Tick ==
    /\ now < MaxTime
    /\ now' = now + 1
    /\ UNCHANGED <<users, messages, groups, usedIds, nextMsgId, pending, resp>>

(***************************************************************************)
(* Specifications                                                          *)
(***************************************************************************)
Init ==
    /\ users = <<>>
    /\ messages = <<>>
    /\ groups = <<>>
    /\ usedIds = {}
    /\ nextMsgId = 1
    /\ now = 0
    /\ pending = [p \in Procs |-> Idle]
    /\ resp = Response("none", Ok, 0)

AllIdle == \A p \in Procs : pending[p].op = "idle"

\* the request slot the message and group store specifications use: one handler
\* of several awaits at a time, interleaved with the single-command calls
StoreProcs == {"p1"}

\* createMessage arguments of the store specifications: both senders, every
\* combination of recipient and group, empty and non-empty content
StoreInputs ==
    {MessageData(s, r, g, c, NoFile) :
        s \in UserIds, r \in {Null, "u2"}, g \in {Null, "g1"}, c \in {"", "hi"}}

\* calls that start (single-command calls run to their end)
StoreCall ==
    \/ \E d \in StoreInputs : createMessage(d, now)
    \/ \E p \in StoreProcs, id \in 1..MaxMsgs, u \in UserIds : deleteMessageFind(p, id, u)
    \/ \E a \in UserIds : createGroup("G", a, <<>>)
    \/ \E p \in StoreProcs, g \in GroupIds, u \in UserIds : deleteGroupFind(p, g, u)
    \/ \E p \in StoreProcs, u \in UserIds : deleteUserMessages(p, u)

\* a handler in flight resumes after an await
StoreStep ==
    \/ \E p \in StoreProcs : deleteMessageSave(p)
    \/ \E p \in StoreProcs : deleteGroupMessages(p)
    \/ \E p \in StoreProcs : deleteGroupRemove(p)
    \/ \E p \in StoreProcs : deleteUserRemove(p)

Next == StoreCall \/ StoreStep

\* message and group store, calls interleaved at the awaits
Spec == Init /\ [][Next]_vars

SeqNext == (AllIdle /\ StoreCall) \/ StoreStep

\* message and group store, one call at a time (no concurrent operation)
SeqSpec == Init /\ [][SeqNext]_vars


\* createMessage arguments of the read specification: the two directions of
\* one direct conversation and one group conversation, each with a text message
\* and a file message (a file message carries the file's name as content)
ReadInputs ==
    {MessageData("u1", "u2", Null, "a.png", AFile),
     MessageData("u2", "u1", Null, "hi", NoFile),
     MessageData("u1", Null, "g1", "a.png", AFile),
     MessageData("u2", Null, "g1", "hi", NoFile)}

\* the handler read new Date() at t and its insert reaches the collection now
ReadNext ==
    \/ \E d \in ReadInputs, t \in 0..now : createMessage(d, t)
    \/ \E p \in StoreProcs, id \in 1..MaxMsgs, u \in UserIds : deleteMessageFind(p, id, u)
    \/ \E p \in StoreProcs : deleteMessageSave(p)
    \/ \E p \in StoreProcs, u \in UserIds : deleteUserMessages(p, u)
    \/ \E p \in StoreProcs : deleteUserRemove(p)
    \/ Tick

\* message store as the readers see it: timestamps, attachments, soft deletion
ReadSpec == Init /\ [][ReadNext]_vars

\* names a registration or a profile edit can ask for
Usernames == {"alice", "bob"}

UserData == {[username |-> n, password |-> "pw"] : n \in Usernames \cup {""}}

\* bodies of PATCH /api/user: a new username, an empty one, or none
PatchBodies == {[username |-> n] : n \in Usernames \cup {"", Null}}

UserNext ==
    \/ \E d \in UserData : createUser(d)
    \/ \E p \in Procs, u \in NewUserIds, b \in PatchBodies : patchUserLookup(p, u, b)
    \/ \E p \in Procs : patchUserUpdate(p)
    \/ \E u \in NewUserIds, b \in PatchBodies : patchUserNoLookup(u, b)
    \/ \E p \in Procs, u \in NewUserIds : deleteUserMessages(p, u)
    \/ \E p \in Procs : deleteUserRemove(p)

\* identity store: registrations and profile edits of several requests in flight
UserSpec == Init /\ [][UserNext]_vars

\* memberIds lists a group is created with: empty, the admin or a member
\* alone, a repeated id, two ids
MemberLists == {<<>>, <<"u1">>, <<"u2", "u2">>, <<"u1", "u2">>}

\* createMessage arguments of the account specification: both directions of the
\* direct conversation and a group message of either user
AccountInputs ==
    {MessageData("u1", "u2", Null, "hi", NoFile),
     MessageData("u2", "u1", Null, "hi", NoFile),
     MessageData("u1", Null, "g1", "hi", NoFile),
     MessageData("u2", Null, "g1", "hi", NoFile)}

AccountCall ==
    \/ \E d \in UserData : createUser(d)
    \/ \E d \in AccountInputs : createMessage(d, now)
    \/ \E a \in UserIds, ms \in MemberLists : createGroup("G", a, ms)
    \/ \E p \in StoreProcs, u \in UserIds : deleteUserMessages(p, u)

AccountNext ==
    \/ AllIdle /\ AccountCall
    \/ \E p \in StoreProcs : deleteUserRemove(p)

\* accounts with their messages and groups, one call at a time
AccountSpec == Init /\ [][AccountNext]_vars

\* a write after the first await of a handler is lost to a storage failure
StoreFailure ==
    \/ \E p \in StoreProcs : deleteGroupRemoveFails(p)
    \/ \E p \in StoreProcs : deleteUserRemoveFails(p)

FailNext == SeqNext \/ StoreFailure

\* message and group store, one call at a time, on a database that can fail
FailSpec == Init /\ [][FailNext]_vars

\* memberIds lists of addGroupMembers
AddLists == MemberLists \ {<<>>}

\* createMessage arguments of the group specification
GroupInputs ==
    {MessageData("u1", Null, "g1", "hi", NoFile),
     MessageData("u2", "u1", Null, "hi", NoFile)}

GroupNext ==
    \/ \E a \in UserIds, ms \in MemberLists : createGroup("G", a, ms)
    \/ \E g \in GroupIds, ms \in AddLists : addGroupMembers(g, ms)
    \/ \E g \in GroupIds, m \in UserIds : removeGroupMember(g, m)
    \/ \E p \in StoreProcs, g \in GroupIds, u \in UserIds : deleteGroupFind(p, g, u)
    \/ \E p \in StoreProcs : deleteGroupMessages(p)
    \/ \E p \in StoreProcs : deleteGroupRemove(p)
    \/ \E d \in GroupInputs : createMessage(d, now)
    \/ \E p \in StoreProcs, id \in 1..MaxMsgs, u \in UserIds : deleteMessageFind(p, id, u)
    \/ \E p \in StoreProcs : deleteMessageSave(p)
    \/ \E p \in StoreProcs, u \in UserIds : deleteUserMessages(p, u)
    \/ \E p \in StoreProcs : deleteUserRemove(p)

\* groups and their member sets, calls interleaved at the awaits
GroupSpec == Init /\ [][GroupNext]_vars

\* the q of a search: none, two letters in capitals, one letter, no match
Queries == {<<>>, <<"A", "L">>, <<"b">>, <<"x">>}

\* bodies of PATCH /api/user that carry a presence flag and no username
PresenceBodies == {[username |-> Null, isOnline |-> b] : b \in BOOLEAN}

\* createMessage argument of the directory specification
DirectoryInputs == {MessageData("u1", "u2", Null, "hi", NoFile)}

DirectoryNext ==
    \/ \E d \in UserData : createUser(d)
    \/ \E u \in UserIds, b \in BOOLEAN : setUserOnlineStatus(u, b)
    \/ \E u \in UserIds, body \in PresenceBodies : patchUserNoLookup(u, body)
    \/ \E u \in UserIds, q \in Queries : getUsersSearch(u, q)
    \/ \E d \in DirectoryInputs : createMessage(d, now)
    \/ \E a \in UserIds : createGroup("G", a, <<>>)
    \/ Tick

\* the user directory: registration, search, presence and profile edits
DirectorySpec == Init /\ [][DirectoryNext]_vars

\* the file fields a caller of createMessage can pass: each one set or not
FileFields ==
    {[fileUrl |-> u, fileName |-> n, fileType |-> t] :
        u \in {Null, AFile.fileUrl}, n \in {Null, AFile.fileName},
        t \in {Null, AFile.fileType}}

\* createMessage arguments of the attachment specification
AttachInputs == {MessageData("u1", "u2", Null, "a.png", f) : f \in FileFields}

AttachNext ==
    \/ \E d \in AttachInputs : createMessage(d, now)
    \/ \E p \in StoreProcs, id \in 1..MaxMsgs, u \in UserIds : deleteMessageFind(p, id, u)
    \/ \E p \in StoreProcs : deleteMessageSave(p)

\* the message store under every combination of the attachment fields
AttachSpec == Init /\ [][AttachNext]_vars

\* the file message the client sends after an upload: content is the file's
\* name, with fileUrl and fileType and without fileName
ClientFile == [fileUrl |-> AFile.fileUrl, fileName |-> Null, fileType |-> AFile.fileType]

\* bodies of POST /api/messages: a text, a body that names another sender, a
\* deleted flag and an old timestamp, the client's file message, a group
\* message with the triple of the upload endpoint, and a body without content
RequestBodies ==
    {RequestBody(Null, "u2", Null, "hi", NoFile, Null, Null),
     RequestBody("u2", "u1", Null, "forged", NoFile, TRUE, 0),
     RequestBody(Null, "u2", Null, "a.png", ClientFile, Null, Null),
     RequestBody(Null, Null, "g1", "a.png", AFile, Null, Null),
     RequestBody(Null, "u2", Null, Null, NoFile, Null, Null)}

HttpNext ==
    \/ \E caller \in UserIds, body \in RequestBodies : postMessages(caller, body, now)
    \/ \E caller \in UserIds, g \in GroupIds : getGroupMessagesRoute(caller, g)
    \/ \E a \in UserIds : createGroup("G", a, <<>>)
    \/ \E g \in GroupIds, m \in UserIds : removeGroupMember(g, m)
    \/ Tick

\* messages as the routes create and return them
HttpSpec == Init /\ [][HttpNext]_vars

\* the user whose tabs the presence specification follows
PageUser == "u1"

PresenceNext ==
    \/ \E d \in UserData : createUser(d)
    \/ \E p \in Procs : mount(p, PageUser)
    \/ \E p \in Procs : unmount(p)
    \/ \E p \in Procs : postOnline(p, PageUser)
    \/ \E p \in Procs : postOffline(p, PageUser)
    \/ Tick

\* presence of one user with several tabs; the server processes the presence
\* requests in flight in any order
PresenceSpec == Init /\ [][PresenceNext]_vars

(***************************************************************************)
(* Claims                                                                  *)
(***************************************************************************)
ExactlyOneAddress(m) == (m.recipientId = Null) # (m.groupId = Null)

StoredMessages == {messages[i] : i \in 1..Len(messages)}

\* C1: in every reachable state of the message store every stored message has
\* exactly one of recipientId and groupId set
C1_ExactlyOneOfRecipientAndGroup ==
    \A m \in StoredMessages : ExactlyOneAddress(m)

\* a direct and a group message are stored, one of them soft-deleted, after a
\* delete call has completed
C1_Witness ==
    /\ \E m \in StoredMessages : m.recipientId # Null /\ m.isDeleted
    /\ \E m \in StoredMessages : m.groupId # Null
    /\ resp.op \in {"deleteMessage", "deleteGroup", "deleteUser"}

\* C2 as the spec states it: createMessage with both or neither of recipientId
\* and groupId fails with an addressing error and leaves the stored messages
\* unchanged
C2_Original ==
    [][\A d \in StoreInputs :
          (~ExactlyOneAddress(d) /\ resp'.op = "createMessage" /\ createMessage(d, now))
             => /\ resp'.status \in {ErrNeither, ErrBoth}
                /\ messages' = messages]_vars

\* C2 amended: createMessage with both or neither of recipientId and groupId
\* fails and leaves the stored messages unchanged; the failure is the addressing
\* error of the save hook when senderId and content are present, and the
\* validation error of the required fields when content is empty
C2_InvalidAddressingFails ==
    [][\A d \in StoreInputs :
          (~ExactlyOneAddress(d) /\ resp'.op = "createMessage" /\ createMessage(d, now))
             => /\ resp'.status =
                      IF d.content = "" THEN ErrValidation
                      ELSE IF d.recipientId = Null THEN ErrNeither ELSE ErrBoth
                /\ messages' = messages
                /\ nextMsgId' = nextMsgId]_vars

\* a createMessage with both recipientId and groupId was just rejected by a
\* store that holds messages
C2_Witness ==
    /\ resp = Response("createMessage", ErrBoth, 0)
    /\ messages # <<>>

\* C3: every stored message with a groupId refers to a group that exists
C3_GroupMessagesReferToExistingGroup ==
    \A m \in StoredMessages : m.groupId # Null => m.groupId \in DOMAIN groups

\* C5: (one call at a time) when deleteGroup(G, admin) completes, G no longer
\* exists, getGroupMessages(G) returns the empty list and no stored message has
\* groupId G
C5_DeleteGroupCascade ==
    [][\A p \in StoreProcs :
          deleteGroupRemove(p)
             => \E G \in GroupIds :
                    /\ G = pending[p].groupId
                    /\ resp' = Response("deleteGroup", Ok, pending[p].n)
                    /\ G \notin DOMAIN groups'
                    /\ groupMessagesIn(messages', G) = {<<>>}
                    /\ \A i \in 1..Len(messages') : messages'[i].groupId # G]_vars

\* deleteGroup has completed on a group that held two messages
C5_Witness ==
    /\ resp = Response("deleteGroup", Ok, 2)
    /\ "g1" \in usedIds
    /\ "g1" \notin DOMAIN groups
    /\ getGroupMessages("g1") = {<<>>}

\* C6: deleteMessage by a user who is not the sender, and deleteGroup by a user
\* who is not the admin, fail with the Unauthorized error (HTTP 403) and leave
\* users, messages and groups unchanged, with no write left to come
C6_DeletionIsOwnerGated ==
    [][/\ \A p \in StoreProcs, id \in 1..MaxMsgs, u \in UserIds :
            (/\ deleteMessageFind(p, id, u)
             /\ \E m \in StoredMessages : m.id = id /\ m.senderId # u)
               => /\ resp' = Response("deleteMessage", ErrDeleteMessage, 0)
                  /\ UNCHANGED <<users, messages, groups, pending>>
       /\ \A p \in StoreProcs, g \in GroupIds, u \in UserIds :
            (/\ deleteGroupFind(p, g, u)
             /\ g \in DOMAIN groups
             /\ groups[g].admin # u)
               => /\ resp' = Response("deleteGroup", ErrDeleteGroup, 0)
                  /\ UNCHANGED <<users, messages, groups, pending>>]_vars

\* every message id exists, none is deleted, a group with a message exists, and
\* a deleteMessage was just refused
C6_Witness ==
    /\ resp = Response("deleteMessage", ErrDeleteMessage, 0)
    /\ Len(messages) = MaxMsgs
    /\ nextMsgId = MaxMsgs + 1
    /\ \A m \in StoredMessages : ~m.isDeleted
    /\ \E m \in StoredMessages : m.groupId \in DOMAIN groups


\* every list some read of the collection msgs can return
AllReadsIn(msgs) ==
    UNION ({betweenUsersIn(msgs, a, b) : a \in UserIds, b \in UserIds}
           \cup {groupMessagesIn(msgs, g) : g \in GroupIds})

\* the lists a read of the conversation addressed by d can return
ConversationIn(msgs, d) ==
    IF d.groupId # Null THEN groupMessagesIn(msgs, d.groupId)
    ELSE betweenUsersIn(msgs, d.senderId, d.recipientId)

SameIdentity(m1, m2) ==
    /\ m1.id = m2.id
    /\ m1.senderId = m2.senderId
    /\ m1.recipientId = m2.recipientId
    /\ m1.groupId = m2.groupId
    /\ m1.timestamp = m2.timestamp

SameContent(m1, m2) ==
    /\ m1.content = m2.content
    /\ m1.fileUrl = m2.fileUrl
    /\ m1.fileName = m2.fileName
    /\ m1.fileType = m2.fileType

\* every read that returns a soft-deleted message shows the placeholder, null
\* attachment fields and the stored id, sender, addressing and timestamp
C4_ReadsRedact ==
    \A r \in AllReadsIn(messages) : \A i \in 1..Len(r) : \A m \in StoredMessages :
        (m.id = r[i].id /\ m.isDeleted)
           => /\ r[i].content = Placeholder
              /\ r[i].fileUrl = Null /\ r[i].fileName = Null /\ r[i].fileType = Null
              /\ SameIdentity(r[i], m)

\* a successful deleteMessage sets isDeleted on the message and changes nothing
\* else of it; no step changes the identity of a stored message or undeletes it
C4_DeletionKeepsIdentity ==
    /\ \A p \in StoreProcs :
          (deleteMessageSave(p) /\ resp'.status = Ok)
             => \E i \in 1..Len(messages) :
                   /\ messages[i].id = pending[p].message.id
                   /\ messages' = [messages EXCEPT ![i].isDeleted = TRUE]
    /\ \A i \in 1..Len(messages) : \A j \in 1..Len(messages') :
          messages[i].id = messages'[j].id
             => /\ SameIdentity(messages[i], messages'[j])
                /\ messages[i].isDeleted => messages'[j].isDeleted

\* C4: once deleteMessage has succeeded on a message, every later read that
\* returns it shows content "This message was deleted" and null fileUrl,
\* fileName, fileType, with id, senderId, recipientId/groupId and timestamp as
\* before the deletion
C4_DeletedMessagesReadRedacted ==
    []C4_ReadsRedact /\ [][C4_DeletionKeepsIdentity]_vars

\* a message with an attachment was just deleted and its conversation still
\* returns it
C4_Witness ==
    /\ resp = Response("deleteMessage", Ok, 1)
    /\ \E m \in StoredMessages :
          /\ m.isDeleted
          /\ m.fileUrl # Null
          /\ \A r \in ConversationIn(messages, m) : \E i \in 1..Len(r) : r[i].id = m.id

\* r lists its messages by ascending timestamp, equal timestamps by creation
InCreationOrder(r) ==
    \A i, j \in 1..Len(r) :
        i < j => \/ r[i].timestamp < r[j].timestamp
                 \/ (r[i].timestamp = r[j].timestamp /\ r[i].id < r[j].id)

\* r holds exactly the messages of the set expected, each once
ExactlyThese(r, expected) ==
    /\ {r[i].id : i \in 1..Len(r)} = {m.id : m \in expected}
    /\ \A i, j \in 1..Len(r) : r[i].id = r[j].id => i = j

\* C8: getMessagesBetween(A, B) returns exactly the messages between A and B and
\* getGroupMessages(G) exactly those of G, by ascending timestamp and, for equal
\* timestamps, in the order of creation
C8_ReadsInTimestampThenCreationOrder ==
    /\ \A a \in UserIds, b \in UserIds : \A r \in getMessagesBetweenUsers(a, b) :
          /\ ExactlyThese(r, {m \in StoredMessages :
                \/ (m.senderId = a /\ m.recipientId = b)
                \/ (m.senderId = b /\ m.recipientId = a)})
          /\ InCreationOrder(r)
    /\ \A g \in GroupIds : \A r \in getGroupMessages(g) :
          /\ ExactlyThese(r, {m \in StoredMessages : m.groupId = g})
          /\ InCreationOrder(r)

\* the messages that r1 and r2 both hold are in the same relative order
SameRelativeOrder(r1, r2) ==
    \A i, j \in 1..Len(r1) : \A k, l \in 1..Len(r2) :
        (r1[i].id = r2[k].id /\ r1[j].id = r2[l].id /\ i < j) => k < l

\* C9: messages already in a conversation keep their relative order on every
\* later read of it, whatever happens in between
C9_ReadOrderIsStable ==
    [][/\ \A a \in UserIds, b \in UserIds :
            \A r1 \in betweenUsersIn(messages, a, b) :
               \A r2 \in betweenUsersIn(messages', a, b) : SameRelativeOrder(r1, r2)
       /\ \A g \in GroupIds :
            \A r1 \in groupMessagesIn(messages, g) :
               \A r2 \in groupMessagesIn(messages', g) : SameRelativeOrder(r1, r2)]_vars

\* every stored message that is not deleted is in every read of its
\* conversation, with its stored content and attachment fields
C10_ReadsShowStoredContent ==
    \A m \in StoredMessages :
        ~m.isDeleted
           => \A r \in ConversationIn(messages, m) :
                 \E i \in 1..Len(r) : r[i].id = m.id /\ SameContent(r[i], m)

\* a successful createMessage(d) puts the new message, with d's content and
\* attachment fields, in every read of the addressed conversation; no step
\* changes the stored content or attachment fields of a message
C10_CreateThenRead ==
    /\ \A d \in ReadInputs, t \in 0..MaxTime :
          (resp' = Response("createMessage", Ok, 1) /\ createMessage(d, t))
             => \A r \in ConversationIn(messages', d) :
                   \E i \in 1..Len(r) : r[i].id = nextMsgId /\ SameContent(r[i], d)
    /\ \A i \in 1..Len(messages) : \A j \in 1..Len(messages') :
          messages[i].id = messages'[j].id => SameContent(messages[i], messages'[j])

\* C10: after createMessage succeeds, a read of the addressed conversation
\* contains the new message with the content, fileUrl, fileName and fileType
\* passed to createMessage, for as long as the message is not deleted
C10_RoundTrip ==
    []C10_ReadsShowStoredContent /\ [][C10_CreateThenRead]_vars

\* a message with an attachment was just created next to an older message and
\* is read back, undeleted, from its conversation
C10_Witness ==
    /\ resp = Response("createMessage", Ok, 1)
    /\ Len(messages) = 2
    /\ messages[2].fileUrl # Null
    /\ \A r \in ConversationIn(messages, messages[2]) :
          \E i \in 1..Len(r) : r[i].id = messages[2].id /\ r[i].fileUrl # Null


\* no two users have the same username
C7_UsernamesDistinct ==
    \A a \in DOMAIN users, b \in DOMAIN users :
        a # b => users[a].username # users[b].username

\* a createUser or a profile edit that asks for a username another user holds
\* fails with the duplicate-key error (or the route's "Username already exists")
\* and writes no user
C7_TakenNameIsRefused ==
    /\ \A d \in UserData :
          (createUser(d) /\ d.username # "" /\ getUserByUsername(d.username) # {})
             => /\ resp' = Response("createUser", ErrDuplicateKey, 0)
                /\ users' = users
    /\ \A p \in Procs :
          (/\ patchUserUpdate(p)
           /\ pending[p].caller \in DOMAIN users
           /\ getUserByUsername(pending[p].body.username) \ {pending[p].caller} # {})
             => /\ resp' = Response("patchUser", ErrDuplicateKey, 0)
                /\ users' = users
    /\ \A p \in Procs, u \in NewUserIds, b \in PatchBodies :
          (patchUserLookup(p, u, b) /\ getUserByUsername(b.username) \ {u} # {})
             => /\ resp' = Response("patchUser", ErrUsernameExists, 0)
                /\ users' = users
                /\ pending' = pending
    /\ \A u \in NewUserIds, b \in PatchBodies :
          (/\ patchUserNoLookup(u, b)
           /\ b.username # Null
           /\ getUserByUsername(b.username) \ {u} # {})
             => /\ resp' = Response("patchUser", ErrDuplicateKey, 0)
                /\ users' = users

\* C7: in every reachable state no two users have the same username; for any
\* interleaving of createUser and the profile route's look-up and update, a
\* call that asks for a name another user holds fails with a conflict
C7_UsernameUniqueness ==
    []C7_UsernamesDistinct /\ [][C7_TakenNameIsRefused]_vars

\* a profile edit passed its look-up, lost the race for the name to another
\* call and was refused by the index; two users exist
C7_Witness ==
    /\ resp = Response("patchUser", ErrDuplicateKey, 0)
    /\ Cardinality(DOMAIN users) = 2
    /\ \A u \in DOMAIN users : users[u].username # ""

\* C11: a second deleteMessage(id, author) on an already deleted message passes
\* the ownership check, completes without error like the first and leaves the
\* store as the first call left it: the message stays isDeleted = true and
\* users, messages and groups are unchanged
C11_SecondDeleteIsNoOp ==
    [][/\ \A p \in StoreProcs, id \in 1..MaxMsgs, u \in UserIds :
            (/\ deleteMessageFind(p, id, u)
             /\ \E m \in StoredMessages : m.id = id /\ m.senderId = u /\ m.isDeleted)
               => /\ pending'[p].op = "deleteMessage"
                  /\ pending'[p].message.id = id
                  /\ UNCHANGED <<users, messages, groups, resp>>
       /\ \A p \in StoreProcs :
            (/\ deleteMessageSave(p)
             /\ \E m \in StoredMessages : m.id = pending[p].message.id /\ m.isDeleted)
               => /\ resp'.op = "deleteMessage"
                  /\ resp'.status = Ok
                  /\ UNCHANGED <<users, messages, groups>>
                  /\ \E m \in StoredMessages : m.id = pending[p].message.id /\ m.isDeleted]_vars

\* a deleteMessage on an already deleted message has completed without error
\* and without a write
C11_Witness ==
    /\ resp = Response("deleteMessage", Ok, 0)
    /\ \E m \in StoredMessages : m.isDeleted

\* C12: in every step, a message stored before and after the step keeps its
\* senderId, recipientId, groupId, timestamp, stored content and attachment
\* fields, and a message with isDeleted = true keeps isDeleted = true
C12_OnlyIsDeletedChangesOneWay ==
    [][\A i \in 1..Len(messages) : \A j \in 1..Len(messages') :
          messages[i].id = messages'[j].id
             => /\ SameIdentity(messages[i], messages'[j])
                /\ SameContent(messages[i], messages'[j])
                /\ messages[i].isDeleted => messages'[j].isDeleted]_vars

\* a deleted file message has lived through a second deleteMessage on it and
\* still holds its stored content and attachment under isDeleted = true
C12_Witness ==
    /\ resp = Response("deleteMessage", Ok, 0)
    /\ \E m \in StoredMessages :
          /\ m.isDeleted
          /\ m.content = "a.png"
          /\ m.fileUrl = AFile.fileUrl
    /\ \E m \in StoredMessages : ~m.isDeleted

\* the positions at which the list r holds the message id
PositionsOf(r, id) == {i \in 1..Len(r) : r[i].id = id}

\* a step removes a stored message only if it is deleteUser's or deleteGroup's
\* deleteMany; deleteMessage's save keeps every record
C13_RecordKept ==
    /\ (\E m \in StoredMessages : \A j \in 1..Len(messages') : messages'[j].id # m.id)
          => \/ \E p \in StoreProcs, u \in UserIds : deleteUserMessages(p, u)
             \/ \E p \in StoreProcs : deleteGroupMessages(p)
    /\ \A p \in StoreProcs :
          deleteMessageSave(p)
             => [i \in 1..Len(messages) |-> messages[i].id]
                   = [i \in 1..Len(messages') |-> messages'[i].id]

\* a read of the conversation after a successful deleteMessage returns the
\* message at the position a read before it did
C13_SamePosition ==
    \A p \in StoreProcs :
        (deleteMessageSave(p) /\ resp'.status = Ok)
           => \A r1 \in ConversationIn(messages, pending[p].message) :
                 \A r2 \in ConversationIn(messages', pending[p].message) :
                    /\ PositionsOf(r2, pending[p].message.id) # {}
                    /\ PositionsOf(r2, pending[p].message.id)
                          = PositionsOf(r1, pending[p].message.id)

\* C13: a message record is removed only by deleteUser or deleteGroup;
\* deleteMessage never removes a record, and after deleteMessage the message is
\* still returned, in the same position, by reads of its conversation
C13_DeleteMessageKeepsRecordInPlace ==
    [][C13_RecordKept /\ C13_SamePosition]_vars

\* the part of C13 about records: only deleteUser and deleteGroup remove one
C13_OnlyCascadesRemove == [][C13_RecordKept]_vars

\* C14: (one call at a time) when deleteUser(id) completes, no user has the id
\* and no stored direct message has id as senderId or recipientId
C14_DeleteUserPostcondition ==
    [][\A p \in StoreProcs :
          deleteUserRemove(p)
             => \E id \in UserIds :
                   /\ id = pending[p].id
                   /\ resp' = Response("deleteUser", Ok, 1)
                   /\ id \notin DOMAIN users'
                   /\ \A i \in 1..Len(messages') :
                         messages'[i].recipientId # Null
                            => /\ messages'[i].senderId # id
                               /\ messages'[i].recipientId # id]_vars

\* deleteUser has completed for a user that existed; of two messages created one
\* was purged and the other user's account is still there
C14_Witness ==
    /\ resp = Response("deleteUser", Ok, 1)
    /\ "u1" \in usedIds
    /\ DOMAIN users = {"u2"}
    /\ nextMsgId = 3
    /\ Len(messages) = 1

C16_NoPartialSuccess ==
    [][/\ \A d \in StoreInputs :
            (resp'.status # Ok /\ resp'.op = "createMessage" /\ createMessage(d, now))
               => UNCHANGED <<users, messages, groups>>
       /\ \A p \in StoreProcs, id \in 1..MaxMsgs, u \in UserIds :
            (deleteMessageFind(p, id, u) /\ pending' = pending)
               => UNCHANGED <<users, messages, groups>>
       /\ \A p \in StoreProcs, g \in GroupIds, u \in UserIds :
            (deleteGroupFind(p, g, u) /\ pending' = pending)
               => UNCHANGED <<users, messages, groups>>
       /\ \A p \in StoreProcs :
            (deleteGroupRemoveFails(p) \/ deleteUserRemoveFails(p))
               => /\ UNCHANGED <<users, messages, groups>>
                  /\ pending[p].n = 0]_vars

\* C17: for a requester who is not the owner, deleteMessage (and deleteGroup)
\* gives one and the same outcome whether the target exists and belongs to
\* someone else or does not exist at all, and the store is unchanged in both
\* cases
C17_DeletionDoesNotLeakExistence ==
    [][/\ \A p \in StoreProcs, id \in 1..MaxMsgs, u \in UserIds :
            (/\ deleteMessageFind(p, id, u)
             /\ \A m \in StoredMessages : m.id = id => m.senderId # u)
               => /\ resp' = Response("deleteMessage", ErrDeleteMessage, 0)
                  /\ UNCHANGED <<users, messages, groups, pending>>
       /\ \A p \in StoreProcs, g \in GroupIds, u \in UserIds :
            (/\ deleteGroupFind(p, g, u)
             /\ g \in DOMAIN groups => groups[g].admin # u)
               => /\ resp' = Response("deleteGroup", ErrDeleteGroup, 0)
                  /\ UNCHANGED <<users, messages, groups, pending>>]_vars

\* a deleteGroup that named no existing group was refused with the outcome a
\* non-admin gets, in a store that holds messages
C17_Witness ==
    /\ resp = Response("deleteGroup", ErrDeleteGroup, 0)
    /\ DOMAIN groups = {}
    /\ messages # <<>>

\* the set of the ids in a list
IdsOf(ids) == {ids[i] : i \in 1..Len(ids)}

NoDuplicates(ids) == \A i, j \in 1..Len(ids) : ids[i] = ids[j] => i = j

\* C18: createGroup(name, adminId, memberIds) creates a group whose member set
\* is exactly {adminId} \cup memberIds without duplicates, for every memberIds
\* list (empty, containing adminId, with repeated ids); the admin is a member
C18_CreateGroupMembers ==
    [][\A a \in UserIds, ms \in MemberLists :
          createGroup("G", a, ms)
             => \E g \in DOMAIN groups' \ DOMAIN groups :
                   /\ DOMAIN groups' = DOMAIN groups \cup {g}
                   /\ groups'[g].admin = a
                   /\ IdsOf(groups'[g].members) = {a} \cup IdsOf(ms)
                   /\ NoDuplicates(groups'[g].members)
                   /\ a \in IdsOf(groups'[g].members)]_vars

\* a group was just created by u1 from a memberIds list that repeats an id or
\* names the admin: its members are u1 and u2, once each
C18_Witness ==
    /\ resp = Response("createGroup", Ok, 1)
    /\ "g1" \in DOMAIN groups
    /\ groups["g1"].admin = "u1"
    /\ groups["g1"].members = <<"u1", "u2">>

\* C19: the admin of a group never changes while the group exists, whatever
\* addGroupMembers, removeGroupMember (of the admin too), deleteUser or message
\* operations run; deleteGroup passes its check for the admin and for no one else
C19_AdminIsFixed ==
    [][/\ \A g \in DOMAIN groups \cap DOMAIN groups' :
            groups'[g].admin = groups[g].admin
       /\ \A p \in StoreProcs, g \in GroupIds, u \in UserIds :
            (deleteGroupFind(p, g, u) /\ g \in DOMAIN groups)
               => (pending'[p].op = "deleteGroup") = (u = groups[g].admin)]_vars

\* deleteGroup is in flight for the admin of a group from whose member set the
\* admin had been removed, after the admin's account was deleted
C19_Witness ==
    /\ pending["p1"].op = "deleteGroup"
    /\ resp = Response("deleteUser", Ok, 1)
    /\ \E g \in DOMAIN groups :
          /\ g = pending["p1"].groupId
          /\ groups[g].admin \notin IdsOf(groups[g].members)
          /\ groups[g].members # <<>>

\* C20: addGroupMembers(G, ids) applied twice gives the member set it gives
\* applied once, and changes nothing when every id is already a member;
\* removeGroupMember(G, m) applied twice gives what it gives applied once, and
\* changes nothing when m is not a member
C20_MembershipIsIdempotent ==
    [][/\ \A g \in GroupIds, ms \in AddLists :
            (addGroupMembers(g, ms) /\ g \in DOMAIN groups)
               => /\ addToSet(groups'[g].members, ms) = groups'[g].members
                  /\ IdsOf(groups'[g].members) = IdsOf(groups[g].members) \cup IdsOf(ms)
                  /\ IdsOf(ms) \subseteq IdsOf(groups[g].members) => groups' = groups
                  /\ NoDuplicates(groups'[g].members)
       /\ \A g \in GroupIds, m \in UserIds :
            (removeGroupMember(g, m) /\ g \in DOMAIN groups)
               => /\ pull(groups'[g].members, m) = groups'[g].members
                  /\ IdsOf(groups'[g].members) = IdsOf(groups[g].members) \ {m}
                  /\ m \notin IdsOf(groups[g].members) => groups' = groups]_vars

\* an addGroupMembers has added nothing to a group that already held both users
C20_Witness ==
    /\ resp = Response("addGroupMembers", Ok, 0)
    /\ "g1" \in DOMAIN groups
    /\ IdsOf(groups["g1"].members) = UserIds

C22_SetOnlineStatusStampsLastSeen ==
    [][\A u \in UserIds, b \in BOOLEAN :
          (setUserOnlineStatus(u, b) /\ u \in DOMAIN users)
             => /\ DOMAIN users' = DOMAIN users
                /\ users'[u].isOnline = b
                /\ users'[u].lastSeen = now
                /\ users'[u].username = users[u].username
                /\ users'[u].password = users[u].password
                /\ \A v \in DOMAIN users \ {u} : users'[v] = users[v]
                /\ resp' = Response("setUserOnlineStatus", Ok, 1)]_vars

\* a presence call has just stamped a user who registered earlier: the user is
\* offline with lastSeen at the present time, next to a user who is online
C22_Witness ==
    /\ resp = Response("setUserOnlineStatus", Ok, 1)
    /\ now > 0
    /\ \E u \in DOMAIN users : ~users[u].isOnline /\ users[u].lastSeen = now
    /\ \E u \in DOMAIN users : users[u].isOnline /\ users[u].lastSeen < now

\* C23: whenever a user's isOnline differs between two consecutive states, the
\* step also sets the user's lastSeen to the time of the step, for every
\* operation that writes a user record, the profile route's updateUser included
C23_PresenceChangeStampsLastSeen ==
    [][\A u \in DOMAIN users \cap DOMAIN users' :
          users'[u].isOnline # users[u].isOnline => users'[u].lastSeen = now]_vars

\* C24: a user marked online stays online in every later state until a call
\* writes isOnline = false for that user (setUserOnlineStatus(id, false) or a
\* profile update that carries isOnline: false); the passing of time and the
\* message, group and read operations leave it alone
C24_PresenceIsNeverClearedImplicitly ==
    [][\A u \in DOMAIN users \cap DOMAIN users' :
          (users[u].isOnline /\ ~users'[u].isOnline)
             => \/ setUserOnlineStatus(u, FALSE)
                \/ \E body \in PresenceBodies :
                      ~body.isOnline /\ patchUserNoLookup(u, body)]_vars

\* a user went online at time 0 and is still online after the clock has
\* advanced to its end and a message was sent
C24_Witness ==
    /\ now = MaxTime
    /\ messages # <<>>
    /\ \E u \in DOMAIN users : users[u].isOnline /\ users[u].lastSeen = 0

\* C25: every stored message has all three of fileUrl, fileName and fileType
\* set or none of them, for any createMessage input the store accepts
C25_AttachmentIsAllOrNothing ==
    \A m \in StoredMessages :
        \/ (m.fileUrl = Null /\ m.fileName = Null /\ m.fileType = Null)
        \/ (m.fileUrl # Null /\ m.fileName # Null /\ m.fileType # Null)

\* C26: when POST /api/messages is called with the fileUrl, fileName, fileType
\* triple of the upload endpoint, the message stored and returned by reads of
\* its conversation carries that triple
C26_HttpFileMessageKeepsAttachment ==
    [][\A caller \in UserIds, body \in RequestBodies :
          (/\ body.fileUrl # Null /\ body.fileName # Null /\ body.fileType # Null
           /\ resp' = Response("createMessage", Ok, 1)
           /\ postMessages(caller, body, now))
             => /\ SameContent(messages'[Len(messages')], body)
                /\ \A r \in groupMessagesIn(messages', body.groupId) :
                      \E i \in 1..Len(r) : r[i].id = nextMsgId /\ SameContent(r[i], body)]_vars

\* C28: every message created by POST /api/messages has senderId equal to the
\* authenticated caller's id, whatever senderId, isDeleted or timestamp the
\* body carries, is created with isDeleted = false and stamped by the server
C28_SenderCannotBeForged ==
    [][\A caller \in UserIds, body \in RequestBodies :
          (resp'.op = "createMessage" /\ postMessages(caller, body, now))
             => IF resp'.status = Ok
                THEN /\ Len(messages') = Len(messages) + 1
                     /\ \A i \in 1..Len(messages) : messages'[i] = messages[i]
                     /\ messages'[Len(messages')].id = nextMsgId
                     /\ messages'[Len(messages')].senderId = caller
                     /\ messages'[Len(messages')].isDeleted = FALSE
                     /\ messages'[Len(messages')].timestamp = now
                     /\ messages'[Len(messages')].content = body.content
                ELSE messages' = messages]_vars

\* the body that names u2 as sender, isDeleted true and timestamp 0 was posted
\* by u1 at time 1: the stored message is u1's, not deleted, stamped 1
C28_Witness ==
    /\ resp = Response("createMessage", Ok, 1)
    /\ \E m \in StoredMessages :
          /\ m.content = "forged"
          /\ m.senderId = "u1"
          /\ ~m.isDeleted
          /\ m.timestamp = 1

\* C29: every group message is created by a user who is a member of the group
\* at that time, and a group's messages are returned only to callers who are
\* members of the group at the time of the read
C29_GroupMessagesStayInTheGroup ==
    [][/\ \A caller \in UserIds, body \in RequestBodies :
            (/\ body.groupId # Null
             /\ resp' = Response("createMessage", Ok, 1)
             /\ postMessages(caller, body, now))
               => /\ body.groupId \in DOMAIN groups
                  /\ \E i \in 1..Len(groups[body.groupId].members) :
                        groups[body.groupId].members[i] = caller
       /\ \A caller \in UserIds, g \in GroupIds :
            (getGroupMessagesRoute(caller, g) /\ resp'.n > 0)
               => /\ g \in DOMAIN groups
                  /\ \E i \in 1..Len(groups[g].members) :
                        groups[g].members[i] = caller]_vars

\* C27: for any interleaving of deleteUser(id) with createMessage calls that
\* name id as sender or recipient, once deleteUser(id) has completed the store
\* holds no direct message whose senderId or recipientId is id
C27_DeleteUserLeavesNoDirectMessage ==
    [][\A p \in StoreProcs, id \in UserIds :
          (pending[p].op = "deleteUser" /\ pending[p].id = id /\ deleteUserRemove(p))
             => \A i \in 1..Len(messages') :
                   messages'[i].recipientId # Null
                      => (messages'[i].senderId # id /\ messages'[i].recipientId # id)]_vars

\* C30: once every presence request sent so far has been processed, a user with
\* at least one mounted client page is stored as isOnline = true
C30_PresenceFollowsMountedPages ==
    (/\ PageUser \in DOMAIN users
     /\ \A p \in Procs : pageOf(p).online = 0 /\ pageOf(p).offline = 0
     /\ \E p \in Procs : pageOf(p).mounted)
        => users[PageUser].isOnline

====
